---- MODULE Spec2Model ----
(***************************************************************************)
(* Realtime raffle: one admin session (app/admin/page.tsx), several client *)
(* sessions (app/page.tsx), one row of table public_data in the record     *)
(* store and one realtime channel with presence.                           *)
(*                                                                         *)
(* The store and the bus are external; they are modelled by what the code  *)
(* relies on: an update overwrites the row (last writer wins) and emits a  *)
(* change-event to every channel whose subscription is active at that      *)
(* moment, in commit order; presence is a set of keys.                     *)
(***************************************************************************)
EXTENDS Integers, Sequences, FiniteSets, TLC

(* ------------------------------ bounds --------------------------------- *)

\* number of client sessions (browser tabs) that may attach
NumClients == 2

\* change-events that may be waiting for one subscriber
MaxQueue == 2

\* Math.random() is drawn from {0/RandomSteps, ..., (RandomSteps-1)/RandomSteps}
RandomSteps == 2

(* ------------------------------ values --------------------------------- *)

\* JavaScript null (winner: string | null)
NULL == 0

\* JavaScript undefined (pickRandomElement of an empty array, data?.winner)
UNDEFINED == -1

\* participant identifiers, one per client session; also the presence keys
Clients == 1 .. NumClients

\* client c runs the first (odd c) or the second (even c) version of Home
Version(c) == IF c % 2 = 1 THEN 1 ELSE 2

State == {"WAITING", "DRAWING", "DRAWN", "ERROR"}

\* the {state, winner} part of a PublicData row
PublicData(s, w) == [state |-> s, winner |-> w]

\* useState<PublicData | null>(null): no row held yet
NoData == [state |-> "null", winner |-> NULL]

\* useState<string | null>(null): no message shown
NoError == "none"

\* the placeholder the admin shows when the row cannot be read
ErrorPlaceholder == PublicData("ERROR", NULL)

VARIABLES
    record,          \* store: the row with id = RAFFLE_ID
    presence,        \* bus: keys currently tracked on the channel
    requests,        \* admin updates sent and not yet returned to the handler
    adminPc,         \* admin: position in setupAdminSubscription
    raffleData,      \* admin: useState raffleData (NoData before the fetch)
    connectedUsers,  \* admin: useState connectedUsers (presence state object)
    isLoading,       \* admin: useState isLoading
    error,           \* admin: useState error (NoError or which message)
    timerPending,    \* admin: the setTimeout of the finally block is armed
    adminEvents,     \* bus: change-events on their way to the admin
    clientPc,        \* client: position in setupSubscription
    mounted,         \* client: the component is mounted
    clientState,     \* client: useState state
    clientWinner,    \* client: useState winner
    clientEvents,    \* bus: change-events on their way to each client
    cleanup,         \* client: the calls its effect cleanup has issued
    second           \* a second admin session (another tab of the admin page)

storeVars == <<record, presence, requests>>
adminVars == <<adminPc, raffleData, connectedUsers, isLoading, error,
               timerPending, adminEvents>>
clientVars == <<clientPc, mounted, clientState, clientWinner, clientEvents,
                cleanup>>
vars == <<storeVars, adminVars, clientVars, second>>

(* --------------------------- pure functions ---------------------------- *)

RECURSIVE KeysInOrder(_)
\* Object.values / Object.keys enumerate the keys of the presence state in
\* one fixed order; the model takes ascending key order.
KeysInOrder(S) ==
    IF S = {} THEN <<>>
    ELSE LET k == CHOOSE x \in S : \A y \in S : x <= y
         IN <<k>> \o KeysInOrder(S \ {k})

\* channel.presenceState(): for every tracked key the list of its presences
PresenceStateOf(keys) == [k \in keys |-> <<[user |-> k]>>]

RECURSIVE Flat(_)
\* Array.prototype.flat on a list of lists
Flat(lists) ==
    IF lists = <<>> THEN <<>> ELSE Head(lists) \o Flat(Tail(lists))

\* Object.values(connectedUsers).flat().map(entry => entry.user)
UserListOf(cu) ==
    LET ks == KeysInOrder(DOMAIN cu)
        values == [i \in 1 .. Len(ks) |-> cu[ks[i]]]
        flat == Flat(values)
    IN [i \in 1 .. Len(flat) |-> flat[i].user]

userList == UserListOf(connectedUsers)

\* raffleData?.state ?? State.WAITING
currentState == IF raffleData = NoData THEN "WAITING" ELSE raffleData.state

Range(s) == {s[i] : i \in 1 .. Len(s)}

\* pickRandomElement with Math.random() = rnd / RandomSteps: an off-by-one
\* variant that rounds the index up (Math.ceil) and so can index past the end
pickRandomElementCeil(arr, rnd) ==
    IF Len(arr) = 0 THEN UNDEFINED
    ELSE LET randomIndex == ((rnd * Len(arr)) + RandomSteps - 1) \div RandomSteps
         IN IF randomIndex + 1 \in DOMAIN arr THEN arr[randomIndex + 1]
            ELSE UNDEFINED

\* pickRandomElement(arr) with Math.random() = rnd / RandomSteps
pickRandomElement(arr, rnd) ==
    IF Len(arr) = 0 THEN UNDEFINED
    ELSE LET randomIndex == (rnd * Len(arr)) \div RandomSteps
         IN IF randomIndex + 1 \in DOMAIN arr THEN arr[randomIndex + 1]
            ELSE UNDEFINED

\* !winnerId is false: the value is neither undefined nor null
Truthy(v) == v # UNDEFINED /\ v # NULL

\* .update({state: DRAWING, winner: null})
StartDrawPatch == [state |-> "DRAWING", winner |-> NULL]

\* the patch of handlePickWinner that leaves the winner column out
PickWinnerPatchStateOnly(winnerId) == [state |-> "DRAWN"]

\* .update({state: DRAWN, winner: winnerId})
PickWinnerPatch(winnerId) == [state |-> "DRAWN", winner |-> winnerId]

\* the patch of handleResetRaffle that forgets to clear the winner
ResetPatchKeepsWinner == [state |-> "WAITING"]

\* .update({state: WAITING, winner: null})
ResetPatch == [state |-> "WAITING", winner |-> NULL]

\* the store's update: the columns the patch names are overwritten
ApplyPatch(row, patch) ==
    [f \in DOMAIN row |-> IF f \in DOMAIN patch THEN patch[f] ELSE row[f]]

\* an update on its way: status is sent, then ok or error until it returns;
\* candidates is the userList the handler read when it was invoked; session
\* is the admin session whose handler awaits it
Request(cmd, patch, candidates) ==
    [cmd |-> cmd, patch |-> patch, status |-> "sent", candidates |-> candidates,
     session |-> 1]

\* the state of an admin page in another tab: the same four useState values
SecondSession(rd, cu, l, e) ==
    [raffleData |-> rd, connectedUsers |-> cu, isLoading |-> l, error |-> e]

RemoveAt(s, i) == SubSeq(s, 1, i - 1) \o SubSeq(s, i + 1, Len(s))

\* a client's channel is joined on the bus
Joined(c) == clientPc[c] \in {"subscribed", "tracked"}

\* channelRef.current holds a channel: it is stored right after the fetch
HasChannel(c) == clientPc[c] \in {"joining", "errored", "subscribed", "tracked"}

\* change-events still to come for one subscriber stay within MaxQueue
Sent == {i \in 1 .. Len(requests) : requests[i].status = "sent"}
RoomForWrite ==
    /\ Len(adminEvents) + Cardinality(Sent) < MaxQueue
    /\ \A c \in Clients : Len(clientEvents[c]) + Cardinality(Sent) < MaxQueue

(* ------------------------------- Init ---------------------------------- *)

\* The admin page has rendered once and setupAdminSubscription has run up to
\* its first await; no client has attached yet.
InitSessions ==
    /\ presence = {}
    /\ requests = <<>>
    /\ adminPc = "fetching"
    /\ raffleData = NoData
    /\ connectedUsers = PresenceStateOf({})
    /\ isLoading = TRUE
    /\ error = NoError
    /\ timerPending = FALSE
    /\ adminEvents = <<>>
    /\ clientPc = [c \in Clients |-> "init"]
    /\ mounted = [c \in Clients |-> FALSE]
    /\ clientState = [c \in Clients |-> "WAITING"]
    /\ clientWinner = [c \in Clients |-> NULL]
    /\ clientEvents = [c \in Clients |-> <<>>]
    /\ cleanup = [c \in Clients |-> <<>>]
    /\ second = SecondSession(NoData, PresenceStateOf({}), FALSE, NoError)

Init ==
    /\ record = PublicData("WAITING", NULL)
    /\ InitSessions

(* --------------------------- admin: setup ------------------------------ *)

\* the initial fetch returns the row: setRaffleData(data); the finally block
\* arms the timer; the channel is created and subscribe() is called
AdminFetchOk ==
    /\ adminPc = "fetching"
    /\ raffleData' = record
    /\ timerPending' = TRUE
    /\ adminPc' = "joining"
    /\ UNCHANGED <<storeVars, connectedUsers, isLoading, error, adminEvents,
                   clientVars>>
    /\ UNCHANGED second

\* a catch block that reports the failure and leaves raffleData as it was
AdminFetchFailKeepsData ==
    /\ adminPc = "fetching"
    /\ error' = "fetch"
    /\ isLoading' = FALSE
    /\ timerPending' = TRUE
    /\ adminPc' = "failed"
    /\ UNCHANGED <<storeVars, raffleData, connectedUsers, adminEvents,
                   clientVars>>
    /\ UNCHANGED second

\* the initial fetch fails: the catch block sets the placeholder and returns;
\* the finally block still arms the timer
AdminFetchFail ==
    /\ adminPc = "fetching"
    /\ error' = "fetch"
    /\ raffleData' = ErrorPlaceholder
    /\ isLoading' = FALSE
    /\ timerPending' = TRUE
    /\ adminPc' = "failed"
    /\ UNCHANGED <<storeVars, connectedUsers, adminEvents, clientVars>>
    /\ UNCHANGED second

\* setTimeout(() => setIsLoading(false), 100) fires
AdminLoadingTimer ==
    /\ timerPending
    /\ timerPending' = FALSE
    /\ isLoading' = FALSE
    /\ UNCHANGED <<storeVars, adminPc, raffleData, connectedUsers, error,
                   adminEvents, clientVars>>
    /\ UNCHANGED second

\* a key for the admin, distinct from every client's
AdminId == NumClients + 1

\* a subscribe callback that tracks the admin's own presence, as the clients'
\* callback does
AdminSubscribedAndTracked ==
    /\ adminPc = "joining"
    /\ adminPc' = "subscribed"
    /\ error' = NoError
    /\ presence' = presence \cup {AdminId}
    /\ UNCHANGED <<record, requests, raffleData, connectedUsers, isLoading,
                   timerPending, adminEvents, clientVars>>
    /\ UNCHANGED second

\* the bus reports SUBSCRIBED: from now on change-events reach the admin
AdminSubscribed ==
    /\ adminPc = "joining"
    /\ adminPc' = "subscribed"
    /\ error' = NoError
    /\ UNCHANGED <<storeVars, raffleData, connectedUsers, isLoading,
                   timerPending, adminEvents, clientVars>>
    /\ UNCHANGED second

\* a status callback that treats a channel error like a lost row and puts
\* the placeholder into raffleData
AdminChannelErrorForcesErrorView ==
    /\ adminPc \in {"joining", "subscribed"}
    /\ error' = "channel"
    /\ raffleData' = ErrorPlaceholder
    /\ UNCHANGED <<storeVars, adminPc, connectedUsers, isLoading, timerPending,
                   adminEvents, clientVars>>
    /\ UNCHANGED second

\* the bus reports CHANNEL_ERROR to the subscribe callback, while joining or
\* after: setError(errorMsg).  What becomes of the channel is the bus's
\* business; here it recovers without losing a change-event.
AdminChannelError ==
    /\ adminPc \in {"joining", "subscribed"}
    /\ error' = "channel"
    /\ UNCHANGED <<storeVars, adminPc, raffleData, connectedUsers, isLoading,
                   timerPending, adminEvents, clientVars>>
    /\ UNCHANGED second

\* the postgres_changes handler, UPDATE event: setError(null);
\* setRaffleData(payload.new)
AdminOnChange ==
    /\ adminPc = "subscribed"
    /\ adminEvents # <<>>
    /\ error' = NoError
    /\ raffleData' = Head(adminEvents)
    /\ adminEvents' = Tail(adminEvents)
    /\ UNCHANGED <<storeVars, adminPc, connectedUsers, isLoading, timerPending,
                   clientVars>>
    /\ UNCHANGED second

\* a sync handler that patches the registry: it adds the keys now present and
\* never drops one it already holds
AdminPresenceSyncMerges ==
    /\ adminPc = "subscribed"
    /\ connectedUsers' = PresenceStateOf(DOMAIN connectedUsers \cup presence)
    /\ UNCHANGED <<storeVars, adminPc, raffleData, isLoading, error,
                   timerPending, adminEvents, clientVars>>
    /\ UNCHANGED second

\* a sync handler that shares its list with the update on its way: the
\* pending pick is re-pointed at the new list
AdminPresenceSyncLiveHandle ==
    /\ adminPc = "subscribed"
    /\ connectedUsers' = PresenceStateOf(presence)
    /\ requests' =
         [i \in 1 .. Len(requests) |->
            IF requests[i].cmd = "pick_winner" /\ requests[i].status = "sent"
            THEN [requests[i] EXCEPT
                    !.patch = PickWinnerPatch(
                        pickRandomElement(UserListOf(PresenceStateOf(presence)), 0))]
            ELSE requests[i]]
    /\ UNCHANGED <<record, presence, adminPc, raffleData, isLoading, error,
                   timerPending, adminEvents, clientVars>>
    /\ UNCHANGED second

\* the presence sync handler: setConnectedUsers(adminChannel.presenceState())
AdminPresenceSync ==
    /\ adminPc = "subscribed"
    /\ connectedUsers' = PresenceStateOf(presence)
    /\ UNCHANGED <<storeVars, adminPc, raffleData, isLoading, error,
                   timerPending, adminEvents, clientVars>>
    /\ UNCHANGED second

(* -------------------------- admin: commands ---------------------------- *)

\* the handler sends one update and awaits it
SendUpdate(cmd, patch, candidates) ==
    /\ isLoading' = TRUE
    /\ error' = NoError
    /\ requests' = Append(requests, Request(cmd, patch, candidates))
    /\ UNCHANGED <<record, presence, adminPc, raffleData, connectedUsers,
                   timerPending, adminEvents, clientVars>>
    /\ UNCHANGED second

handleStartDraw ==
    /\ RoomForWrite
    /\ IF isLoading \/ currentState # "WAITING"
       THEN UNCHANGED vars
       ELSE SendUpdate("start_draw", StartDrawPatch, <<>>)

\* a handler that relies on the button being disabled and checks neither the
\* list's length nor the value picked
handlePickWinnerUnchecked ==
    /\ RoomForWrite
    /\ \E rnd \in 0 .. RandomSteps - 1 :
         IF isLoading \/ currentState # "DRAWING"
         THEN UNCHANGED vars
         ELSE SendUpdate("pick_winner",
                         PickWinnerPatch(pickRandomElement(userList, rnd)),
                         userList)

handlePickWinner ==
    /\ RoomForWrite
    /\ \E rnd \in 0 .. RandomSteps - 1 :
         IF isLoading \/ currentState # "DRAWING" \/ Len(userList) = 0
         THEN UNCHANGED vars
         ELSE LET winnerId == pickRandomElement(userList, rnd)
              IN IF ~Truthy(winnerId)
                 THEN /\ error' = "no_users"
                      /\ isLoading' = FALSE
                      /\ UNCHANGED <<storeVars, adminPc, raffleData,
                                     connectedUsers, timerPending, adminEvents,
                                     clientVars>>
                 ELSE SendUpdate("pick_winner", PickWinnerPatch(winnerId),
                                 userList)
    /\ UNCHANGED second

handleResetRaffle ==
    /\ RoomForWrite
    /\ IF isLoading
       THEN UNCHANGED vars
       ELSE SendUpdate("reset", ResetPatch, <<>>)

(* ------------------------------ store ---------------------------------- *)

\* a store whose pick_winner update is filtered by the state it expects
\* (.eq("state", DRAWING)): on another state no row matches, .single() fails
\* and the row is left alone
StoreCommitIfStillDrawing(i) ==
    /\ requests[i].status = "sent"
    /\ LET refused == /\ requests[i].cmd = "pick_winner"
                      /\ record.state # "DRAWING"
       IN /\ record' = IF refused THEN record
                       ELSE ApplyPatch(record, requests[i].patch)
          /\ requests' = [requests EXCEPT ![i].status =
                                            IF refused THEN "error" ELSE "ok"]
          /\ adminEvents' = IF adminPc = "subscribed" /\ ~refused
                            THEN Append(adminEvents, record')
                            ELSE adminEvents
          /\ clientEvents' = [c \in Clients |->
                                IF Joined(c) /\ mounted[c] /\ ~refused
                                THEN Append(clientEvents[c], record')
                                ELSE clientEvents[c]]
    /\ UNCHANGED <<presence, adminPc, raffleData, connectedUsers, isLoading,
                   error, timerPending, clientPc, mounted, clientState,
                   clientWinner, cleanup>>
    /\ UNCHANGED second

\* the store commits update i and the bus queues the change-event for every
\* channel that is joined at this moment
StoreCommit(i) ==
    /\ requests[i].status = "sent"
    /\ record' = ApplyPatch(record, requests[i].patch)
    /\ requests' = [requests EXCEPT ![i].status = "ok"]
    /\ adminEvents' = IF adminPc = "subscribed"
                      THEN Append(adminEvents, record')
                      ELSE adminEvents
    /\ clientEvents' = [c \in Clients |->
                          IF Joined(c) /\ mounted[c]
                          THEN Append(clientEvents[c], record')
                          ELSE clientEvents[c]]
    /\ UNCHANGED <<presence, adminPc, raffleData, connectedUsers, isLoading,
                   error, timerPending, clientPc, mounted, clientState,
                   clientWinner, cleanup>>
    /\ UNCHANGED second

\* the store (or the network) fails update i: the row is unchanged
StoreFail(i) ==
    /\ requests[i].status = "sent"
    /\ requests' = [requests EXCEPT ![i].status = "error"]
    /\ UNCHANGED <<record, presence, adminVars, clientVars>>
    /\ UNCHANGED second

\* a handler that uses the row its update returns (.select().single()) as
\* the new local raffle data
AdminWriteReturnAppliesRow(i) ==
    /\ requests[i].session = 1
    /\ requests[i].status \in {"ok", "error"}
    /\ error' = IF requests[i].status = "error" THEN requests[i].cmd ELSE error
    /\ isLoading' = FALSE
    /\ raffleData' = IF requests[i].status = "ok"
                     THEN ApplyPatch(raffleData, requests[i].patch)
                     ELSE raffleData
    /\ requests' = RemoveAt(requests, i)
    /\ UNCHANGED <<record, presence, adminPc, connectedUsers,
                   timerPending, adminEvents, clientVars>>
    /\ UNCHANGED second

\* a handler whose failure path returns before the loading flag is cleared
AdminWriteReturnStaysLoading(i) ==
    /\ requests[i].session = 1
    /\ requests[i].status \in {"ok", "error"}
    /\ error' = IF requests[i].status = "error" THEN requests[i].cmd ELSE error
    /\ isLoading' = IF requests[i].status = "error" THEN isLoading ELSE FALSE
    /\ requests' = RemoveAt(requests, i)
    /\ UNCHANGED <<record, presence, adminPc, raffleData, connectedUsers,
                   timerPending, adminEvents, clientVars>>
    /\ UNCHANGED second

\* the await of update i returns: catch sets the message, finally clears
\* the loading flag
AdminWriteReturn(i) ==
    /\ requests[i].session = 1
    /\ requests[i].status \in {"ok", "error"}
    /\ error' = IF requests[i].status = "error" THEN requests[i].cmd ELSE error
    /\ isLoading' = FALSE
    /\ requests' = RemoveAt(requests, i)
    /\ UNCHANGED <<record, presence, adminPc, raffleData, connectedUsers,
                   timerPending, adminEvents, clientVars>>
    /\ UNCHANGED second

(* ------------------------------ clients -------------------------------- *)

\* the component mounts and the effect calls setupSubscription
ClientMount(c) ==
    /\ clientPc[c] = "init"
    /\ clientPc' = [clientPc EXCEPT ![c] = "fetching"]
    /\ mounted' = [mounted EXCEPT ![c] = TRUE]
    /\ UNCHANGED <<storeVars, adminVars, clientState, clientWinner,
                   clientEvents, cleanup>>
    /\ UNCHANGED second

\* the cold-start fetch returns the row; setState and setWinner are applied
\* in one render (a setter of an unmounted component does nothing); then the
\* channel is created, stored in channelRef and subscribe() is called
ClientFetchOk(c) ==
    /\ clientPc[c] = "fetching"
    /\ clientPc' = [clientPc EXCEPT ![c] = "joining"]
    /\ IF mounted[c]
       THEN /\ clientState' = [clientState EXCEPT ![c] = record.state]
            /\ clientWinner' = [clientWinner EXCEPT ![c] = record.winner]
       ELSE UNCHANGED <<clientState, clientWinner>>
    /\ UNCHANGED <<storeVars, adminVars, mounted, clientEvents, cleanup>>
    /\ UNCHANGED second

\* a catch block that also records the failure in the shared row
ClientFetchFailWritesError(c) ==
    /\ clientPc[c] = "fetching"
    /\ clientPc' = [clientPc EXCEPT ![c] = "failed"]
    /\ clientState' = IF mounted[c]
                      THEN [clientState EXCEPT ![c] = "ERROR"]
                      ELSE clientState
    /\ record' = [record EXCEPT !.state = "ERROR"]
    /\ UNCHANGED <<presence, requests, adminVars, mounted, clientWinner,
                   clientEvents, cleanup>>
    /\ UNCHANGED second

\* the cold-start fetch returns an error or no row.  First version: the
\* catch block sets ERROR and returns.  Second version: data is null, the
\* setters receive undefined and setup goes on to the channel.
ClientFetchFail(c) ==
    /\ clientPc[c] = "fetching"
    /\ IF Version(c) = 1
       THEN /\ clientPc' = [clientPc EXCEPT ![c] = "failed"]
            /\ clientState' = IF mounted[c]
                              THEN [clientState EXCEPT ![c] = "ERROR"]
                              ELSE clientState
            /\ UNCHANGED clientWinner
       ELSE /\ clientPc' = [clientPc EXCEPT ![c] = "joining"]
            /\ IF mounted[c]
               THEN /\ clientState' = [clientState EXCEPT ![c] = "undefined"]
                    /\ clientWinner' = [clientWinner EXCEPT ![c] = UNDEFINED]
               ELSE UNCHANGED <<clientState, clientWinner>>
    /\ UNCHANGED <<storeVars, adminVars, mounted, clientEvents, cleanup>>
    /\ UNCHANGED second

\* the bus reports SUBSCRIBED: change-events reach the client from now on
\* and the callback calls track()
ClientSubscribed(c) ==
    /\ clientPc[c] \in {"joining", "errored"}
    /\ clientPc' = [clientPc EXCEPT ![c] = "subscribed"]
    /\ UNCHANGED <<storeVars, adminVars, mounted, clientState, clientWinner,
                   clientEvents, cleanup>>
    /\ UNCHANGED second

\* a setup that calls track() right after subscribe(), without waiting for
\* the SUBSCRIBED status
ClientTrackBeforeSubscribed(c) ==
    /\ clientPc[c] \in {"joining", "subscribed"}
    /\ clientPc' = [clientPc EXCEPT ![c] = "tracked"]
    /\ presence' = presence \cup {c}
    /\ UNCHANGED <<record, requests, adminVars, mounted, clientState,
                   clientWinner, clientEvents, cleanup>>
    /\ UNCHANGED second

\* the bus registers the tracked presence under the client's key
ClientTrackAck(c) ==
    /\ clientPc[c] = "subscribed"
    /\ clientPc' = [clientPc EXCEPT ![c] = "tracked"]
    /\ presence' = presence \cup {c}
    /\ UNCHANGED <<record, requests, adminVars, mounted, clientState,
                   clientWinner, clientEvents, cleanup>>
    /\ UNCHANGED second

\* the join of the channel fails and the bus reports CHANNEL_ERROR to the
\* subscribe callback.  First version: setState(State.ERROR).  Second
\* version: the callback only looks for SUBSCRIBED and does nothing.  The
\* channel stays in channelRef and may still join later.
ClientChannelError(c) ==
    /\ clientPc[c] = "joining"
    /\ clientPc' = [clientPc EXCEPT ![c] = "errored"]
    /\ clientState' = IF Version(c) = 1 /\ mounted[c]
                      THEN [clientState EXCEPT ![c] = "ERROR"]
                      ELSE clientState
    /\ UNCHANGED <<storeVars, adminVars, mounted, clientWinner, clientEvents,
                   cleanup>>
    /\ UNCHANGED second

\* a change handler that applies the state and drops the winner
ClientOnChangeStateOnly(c) ==
    /\ mounted[c]
    /\ Joined(c)
    /\ clientEvents[c] # <<>>
    /\ clientState' = [clientState EXCEPT ![c] = Head(clientEvents[c]).state]
    /\ clientEvents' = [clientEvents EXCEPT ![c] = Tail(clientEvents[c])]
    /\ UNCHANGED <<storeVars, adminVars, clientPc, mounted, clientWinner,
                   cleanup>>
    /\ UNCHANGED second

\* a handler that is handed the newest undelivered change-event first
ClientOnChangeNewestFirst(c) ==
    /\ mounted[c]
    /\ Joined(c)
    /\ clientEvents[c] # <<>>
    /\ LET n == Len(clientEvents[c]) IN
         /\ clientState' = [clientState EXCEPT ![c] = clientEvents[c][n].state]
         /\ clientWinner' = [clientWinner EXCEPT ![c] = clientEvents[c][n].winner]
         /\ clientEvents' = [clientEvents EXCEPT ![c] =
                               SubSeq(clientEvents[c], 1, n - 1)]
    /\ UNCHANGED <<storeVars, adminVars, clientPc, mounted, cleanup>>
    /\ UNCHANGED second

\* the postgres_changes handler: setState(payload.new.state);
\* setWinner(payload.new.winner), applied in one render
ClientOnChange(c) ==
    /\ mounted[c]
    /\ Joined(c)
    /\ clientEvents[c] # <<>>
    /\ clientState' = [clientState EXCEPT ![c] = Head(clientEvents[c]).state]
    /\ clientWinner' = [clientWinner EXCEPT ![c] = Head(clientEvents[c]).winner]
    /\ clientEvents' = [clientEvents EXCEPT ![c] = Tail(clientEvents[c])]
    /\ UNCHANGED <<storeVars, adminVars, clientPc, mounted, cleanup>>
    /\ UNCHANGED second

\* a call of the cleanup whose promise has not settled yet
Call(name) == [call |-> name, status |-> "pending"]

\* what becomes of a rejected cleanup promise.  First version: .catch logs
\* it.  Second version: no handler is attached, the rejection is unhandled.
Rejected(c) == IF Version(c) = 1 THEN "logged" ELSE "unhandled"

\* the effect's cleanup: with a channel in channelRef, untrack() is called
\* and then removeChannel(), neither awaited; without one (setup still awaits
\* the fetch, or it failed) nothing is released and a pending setup goes on.
\* React drops the component's state: the model puts the useState initial
\* values back, and the handlers of the released channel no longer act.
ClientUnmount(c) ==
    /\ mounted[c]
    /\ mounted' = [mounted EXCEPT ![c] = FALSE]
    /\ IF HasChannel(c)
       THEN /\ clientPc' = [clientPc EXCEPT ![c] = "closed"]
            /\ cleanup' = [cleanup EXCEPT ![c] =
                             <<Call("untrack"), Call("removeChannel")>>]
            /\ clientEvents' = [clientEvents EXCEPT ![c] = <<>>]
       ELSE UNCHANGED <<clientPc, cleanup, clientEvents>>
    /\ clientState' = [clientState EXCEPT ![c] = "WAITING"]
    /\ clientWinner' = [clientWinner EXCEPT ![c] = NULL]
    /\ UNCHANGED <<storeVars, adminVars>>
    /\ UNCHANGED second

\* the promise of chan.untrack() settles: on success the bus has dropped the
\* client's presence; a failure changes nothing on the bus
ClientUntrackDone(c) ==
    /\ Len(cleanup[c]) >= 1
    /\ cleanup[c][1].call = "untrack"
    /\ cleanup[c][1].status = "pending"
    /\ \E st \in {"ok", Rejected(c)} :
         /\ cleanup' = [cleanup EXCEPT ![c][1].status = st]
         /\ presence' = IF st = "ok" THEN presence \ {c} ELSE presence
    /\ UNCHANGED <<record, requests, adminVars, clientPc, mounted, clientState,
                   clientWinner, clientEvents>>
    /\ UNCHANGED second

\* the promise of supabase.removeChannel(chan) settles: on success the
\* channel has left the bus, and its presence with it; a failure changes
\* nothing on the bus
ClientRemoveChannelDone(c) ==
    /\ Len(cleanup[c]) >= 2
    /\ cleanup[c][2].call = "removeChannel"
    /\ cleanup[c][2].status = "pending"
    /\ \E st \in {"ok", Rejected(c)} :
         /\ cleanup' = [cleanup EXCEPT ![c][2].status = st]
         /\ presence' = IF st = "ok" THEN presence \ {c} ELSE presence
    /\ UNCHANGED <<record, requests, adminVars, clientPc, mounted, clientState,
                   clientWinner, clientEvents>>
    /\ UNCHANGED second

\* a flag that forgets to compare the winner with the client's own id
isCurrentUserWinnerAnyWinner(c) ==
    clientState[c] = "DRAWN" /\ clientWinner[c] # NULL

\* state === State.DRAWN && winner !== null && userId === winner (the flag
\* of the second version, computed from a client's state, winner and id)
isCurrentUserWinner(c) ==
    clientState[c] = "DRAWN" /\ clientWinner[c] # NULL /\ c = clientWinner[c]

(* ------------------------------- Next ---------------------------------- *)

Next ==
    \/ AdminFetchOk
    \/ AdminFetchFail
    \/ AdminLoadingTimer
    \/ AdminSubscribed
    \/ AdminChannelError
    \/ AdminOnChange
    \/ AdminPresenceSync
    \/ handleStartDraw
    \/ handlePickWinner
    \/ handleResetRaffle
    \/ \E i \in 1 .. Len(requests) : StoreCommit(i)
    \/ \E i \in 1 .. Len(requests) : StoreFail(i)
    \/ \E i \in 1 .. Len(requests) : AdminWriteReturn(i)
    \/ \E c \in Clients : ClientMount(c)
    \/ \E c \in Clients : ClientFetchOk(c)
    \/ \E c \in Clients : ClientFetchFail(c)
    \/ \E c \in Clients : ClientSubscribed(c)
    \/ \E c \in Clients : ClientTrackAck(c)
    \/ \E c \in Clients : ClientChannelError(c)
    \/ \E c \in Clients : ClientOnChange(c)
    \/ \E c \in Clients : ClientUnmount(c)
    \/ \E c \in Clients : ClientUntrackDone(c)
    \/ \E c \in Clients : ClientRemoveChannelDone(c)

Spec == Init /\ [][Next]_vars

\* The row outlives the sessions: a session may find it in any state an
\* earlier session (or the table's owner) left it in.
InitAnyRecord ==
    /\ record \in {PublicData(s, NULL) : s \in {"WAITING", "DRAWING", "ERROR"}}
                 \cup {PublicData("DRAWN", w) : w \in Clients}
    /\ InitSessions

SpecAnyRecord == InitAnyRecord /\ [][Next]_vars

(* ----------------------- a second admin session ----------------------- *)

\* The admin page is open in a second tab.  Its setup and its handlers are
\* those of the first; what the model keeps of it is what its pick_winner
\* handler reads.  Its view may lag behind the row and skip rows.

\* the second session's fetch or its postgres_changes handler stores the row
SecondOnChange ==
    /\ second.raffleData # record
    /\ second' = [second EXCEPT !.raffleData = record]
    /\ UNCHANGED <<storeVars, adminVars, clientVars>>

\* the second session's presence sync handler
SecondPresenceSync ==
    /\ second.connectedUsers # PresenceStateOf(presence)
    /\ second' = [second EXCEPT !.connectedUsers = PresenceStateOf(presence)]
    /\ UNCHANGED <<storeVars, adminVars, clientVars>>

\* handlePickWinner in the second session
SecondPickWinner ==
    /\ RoomForWrite
    /\ \E rnd \in 0 .. RandomSteps - 1 :
         LET list == UserListOf(second.connectedUsers)
             state == IF second.raffleData = NoData
                      THEN "WAITING" ELSE second.raffleData.state
         IN IF second.isLoading \/ state # "DRAWING" \/ Len(list) = 0
            THEN UNCHANGED vars
            ELSE LET winnerId == pickRandomElement(list, rnd)
                 IN IF ~Truthy(winnerId)
                    THEN /\ second' = [second EXCEPT !.error = "no_users",
                                                     !.isLoading = FALSE]
                         /\ UNCHANGED <<storeVars, adminVars, clientVars>>
                    ELSE /\ second' = [second EXCEPT !.error = NoError,
                                                     !.isLoading = TRUE]
                         /\ requests' = Append(requests,
                                [Request("pick_winner", PickWinnerPatch(winnerId),
                                         list) EXCEPT !.session = 2])
                         /\ UNCHANGED <<record, presence, adminVars, clientVars>>

\* the await of the second session's update returns
SecondWriteReturn(i) ==
    /\ requests[i].session = 2
    /\ requests[i].status \in {"ok", "error"}
    /\ second' = [second EXCEPT
                    !.error = IF requests[i].status = "error"
                              THEN requests[i].cmd ELSE @,
                    !.isLoading = FALSE]
    /\ requests' = RemoveAt(requests, i)
    /\ UNCHANGED <<record, presence, adminVars, clientVars>>

\* Two admin sessions and a store that works: the steps of a failing store, a
\* failing channel and a closing client are left out.
NextTwoAdmins ==
    \/ AdminFetchOk
    \/ AdminLoadingTimer
    \/ AdminSubscribed
    \/ AdminOnChange
    \/ AdminPresenceSync
    \/ handleStartDraw
    \/ handlePickWinner
    \/ handleResetRaffle
    \/ \E i \in 1 .. Len(requests) : StoreCommit(i)
    \/ \E i \in 1 .. Len(requests) : AdminWriteReturn(i)
    \/ \E c \in Clients : ClientMount(c)
    \/ \E c \in Clients : ClientFetchOk(c)
    \/ \E c \in Clients : ClientSubscribed(c)
    \/ \E c \in Clients : ClientTrackAck(c)
    \/ \E c \in Clients : ClientOnChange(c)
    \/ SecondOnChange
    \/ SecondPresenceSync
    \/ SecondPickWinner
    \/ \E i \in 1 .. Len(requests) : SecondWriteReturn(i)

SpecTwoAdmins == Init /\ [][NextTwoAdmins]_vars

(* ------------------------- steps seen from outside --------------------- *)

\* this step sends one more update to the store, and it is a cmd update
SendsWrite(cmd) ==
    /\ Len(requests') = Len(requests) + 1
    /\ requests'[Len(requests')].cmd = cmd

\* this step is the store committing update i
Commits(i) ==
    /\ Len(requests') = Len(requests)
    /\ requests[i].status = "sent"
    /\ requests'[i].status = "ok"

(* ------------------------------- claims -------------------------------- *)

\* C1: in every reachable state the row's winner is non-null if and only if
\* the row's state is DRAWN.
C1_WinnerIffDrawn ==
    (record.winner # NULL) <=> (record.state = "DRAWN")

\* C1 witness: a pick has been committed and the row holds a client as winner.
C1_Witness_DrawnWithWinner ==
    /\ record.state = "DRAWN"
    /\ record.winner \in Clients
    /\ \E i \in 1 .. Len(requests) :
         requests[i].cmd = "pick_winner" /\ requests[i].status = "ok"

\* C2 (as claimed): start_draw sends an update only while the row itself is
\* in state WAITING; with the row in DRAWING, DRAWN or ERROR nothing is sent.
C2_StartDrawOnlyWhenRecordWaiting ==
    [][SendsWrite("start_draw") => record.state = "WAITING"]_vars

\* C3: a pick_winner invoked while the admin's registry is empty sends no
\* update and leaves the row and the updates on their way as they are.
C3_PickRejectedOnEmptyRegistry ==
    [][Len(userList) = 0 =>
         /\ ~SendsWrite("pick_winner")
         /\ (handlePickWinner => UNCHANGED <<record, requests>>)]_vars

\* C3 witness: pick_winner is invoked with every other guard passing (not
\* loading, local state DRAWING) and an empty registry, while clients are
\* present on the bus.
C3_Witness_OnlyRegistryEmpty ==
    /\ ENABLED handlePickWinner
    /\ ~isLoading
    /\ currentState = "DRAWING"
    /\ Len(userList) = 0
    /\ presence # {}

\* C4: the winner of every pick_winner update is a member of the userList the
\* handler read when it was invoked, and pickRandomElement never comes back
\* undefined for a list that passed the emptiness check.
C4_WinnerFromSnapshot ==
    [][/\ SendsWrite("pick_winner") =>
            /\ requests'[Len(requests')].patch.winner \in Range(userList)
            /\ requests'[Len(requests')].candidates = userList
       /\ error' # "no_users"]_vars

\* C4 witness: a pick on its way chose the second of two candidates.
C4_Witness_SecondOfTwo ==
    \E i \in 1 .. Len(requests) :
        /\ requests[i].cmd = "pick_winner"
        /\ Len(requests[i].candidates) = 2
        /\ requests[i].patch.winner = requests[i].candidates[2]

\* C5: a pick_winner update keeps the winner taken from the list that passed
\* the check, whatever presence syncs arrive while it is on its way, and its
\* commit writes exactly that winner with state DRAWN.
C5_SnapshotAtomicity ==
    [][/\ \A i \in 1 .. Len(requests') :
            requests'[i].cmd = "pick_winner" =>
                /\ requests'[i].patch.state = "DRAWN"
                /\ requests'[i].patch.winner \in Range(requests'[i].candidates)
       /\ \A i \in 1 .. Len(requests) :
            (requests[i].cmd = "pick_winner" /\ Commits(i)) =>
                /\ record' = PublicData("DRAWN", requests[i].patch.winner)
                /\ record'.winner \in Range(requests[i].candidates)]_vars

\* C5 witness: a pick is on its way and a sync has since emptied the registry.
C5_Witness_RegistryEmptiedInFlight ==
    \E i \in 1 .. Len(requests) :
        /\ requests[i].cmd = "pick_winner"
        /\ requests[i].status = "sent"
        /\ Len(userList) = 0

\* C6: the commit of a reset leaves the row at {WAITING, null} exactly,
\* whatever the row was (WAITING, DRAWING, DRAWN or ERROR; WAITING covers a
\* second reset).
C6_ResetYieldsWaitingNull ==
    [][\A i \in 1 .. Len(requests) :
         (requests[i].cmd = "reset" /\ Commits(i)) =>
             record' = PublicData("WAITING", NULL)]_vars

\* C6 witness: an accepted reset is on its way to a row in state ERROR.
C6_Witness_ResetOnErrorRow ==
    /\ record.state = "ERROR"
    /\ \E i \in 1 .. Len(requests) :
         requests[i].cmd = "reset" /\ requests[i].status = "sent"

\* C7: no participant ever shows state DRAWN without a winner: a change-event
\* replaces state and winner together.
C7_NoDrawnWithoutWinner ==
    /\ \A c \in Clients : clientState[c] = "DRAWN" => clientWinner[c] \in Clients
    /\ raffleData.state = "DRAWN" => raffleData.winner \in Clients

\* C7 witness: a client shows itself as the winner (it was tracked before the
\* pick, so its fetch came earlier and DRAWN reached it as a change-event),
\* and the admin shows the same row.
C7_Witness_EventApplied ==
    \E c \in Clients :
        /\ clientState[c] = "DRAWN"
        /\ clientWinner[c] = c
        /\ raffleData = PublicData("DRAWN", c)

\* nothing is on its way and every attached participant is subscribed
Quiet ==
    /\ requests = <<>>
    /\ adminPc = "subscribed"
    /\ adminEvents = <<>>
    /\ \E c \in Clients : mounted[c]
    /\ \A c \in Clients :
         mounted[c] => /\ clientPc[c] = "tracked"
                       /\ clientEvents[c] = <<>>
                       /\ clientState[c] \in State

\* C8 (as claimed): once nothing is on its way any more, every attached
\* participant whose fetch succeeded shows the row as the store holds it.
C8_ConvergedWhenQuiet ==
    Quiet =>
        /\ raffleData = record
        /\ \A c \in Clients :
             mounted[c] => PublicData(clientState[c], clientWinner[c]) = record

\* C9 (as claimed): at most one update of the admin session has been sent
\* and not yet returned.
C9_SingleWriteInFlight ==
    Len(requests) <= 1

\* C10 (as claimed): the row becomes DRAWN by a pick_winner update only from
\* DRAWING, and becomes DRAWING only from WAITING.
C10_RecordFollowsSequence ==
    [][/\ \A i \in 1 .. Len(requests) :
            (requests[i].cmd = "pick_winner" /\ Commits(i)) =>
                record.state = "DRAWING"
       /\ (record'.state = "DRAWING" /\ record.state # "DRAWING") =>
            record.state = "WAITING"]_vars

\* C11: when the admin's initial fetch fails, its local view becomes
\* {ERROR, null} with an error message set, nothing is sent to the store and
\* the row is unchanged.
C11_FetchFailureShowsPlaceholder ==
    [][(adminPc = "fetching" /\ adminPc' = "failed") =>
         /\ PublicData(raffleData'.state, raffleData'.winner) =
                PublicData("ERROR", NULL)
         /\ error' # NoError
         /\ UNCHANGED <<record, requests>>]_vars

\* C11 witness: the fetch has failed and the admin shows the placeholder and
\* the message.
C11_Witness_PlaceholderShown ==
    /\ adminPc = "failed"
    /\ raffleData = ErrorPlaceholder
    /\ error = "fetch"
    /\ requests = <<>>

\* C12 (as claimed): a session whose initial fetch failed still receives the
\* change-events of later commits.  In such a session the message is cleared
\* only by a command, and stays cleared only if its update was committed; so
\* once that update has returned and nothing is on its way, the admin's view
\* shows the row instead of the placeholder.
C12_FailedSessionFollowsRecord ==
    (/\ adminPc = "failed"
     /\ requests = <<>>
     /\ ~timerPending
     /\ error = NoError) =>
        PublicData(raffleData.state, raffleData.winner) = record

\* C13 (as claimed): when the bus reports a channel error to a client, the
\* client's local state becomes ERROR and nothing is sent to the store.
C13_ClientChannelErrorShowsError ==
    [][\A c \in Clients :
         (mounted[c] /\ clientPc[c] # "errored" /\ clientPc'[c] = "errored") =>
             /\ clientState'[c] = "ERROR"
             /\ UNCHANGED <<record, requests>>]_vars

\* C14: when the bus reports a channel error to the admin, only the message
\* changes: raffleData, the registry and the row stay as they are and no
\* update is sent.
C14_AdminChannelErrorOnlySetsMessage ==
    [][(error # "channel" /\ error' = "channel") =>
         UNCHANGED <<raffleData, connectedUsers, record, requests, isLoading,
                     presence>>]_vars

\* C14 witness: the admin shows the channel error while it still shows the
\* draw in progress and a non-empty registry.
C14_Witness_ErrorBesideLiveView ==
    /\ error = "channel"
    /\ adminPc = "subscribed"
    /\ raffleData = PublicData("DRAWING", NULL)
    /\ record = raffleData
    /\ Len(userList) = 2

\* C15: a client's presence is registered only by a track() that its
\* subscribe callback issued on the SUBSCRIBED status: a client enters the
\* presence set only from the position reached by SUBSCRIBED, and that
\* position is entered only from a channel that was joining.
C15_TrackOnlyAfterSubscribed ==
    [][\A c \in Clients :
         /\ (c \notin presence /\ c \in presence') =>
                (clientPc[c] = "subscribed" /\ clientPc'[c] = "tracked")
         /\ (clientPc[c] # "subscribed" /\ clientPc'[c] = "subscribed") =>
                clientPc[c] \in {"joining", "errored"}
         /\ (clientPc[c] # "tracked" /\ clientPc'[c] = "tracked") =>
                clientPc[c] = "subscribed"]_vars

\* C15 witness: both clients are tracked, one of them after a failed join.
C15_Witness_AllTracked ==
    /\ presence = Clients
    /\ \A c \in Clients : clientPc[c] = "tracked"
    /\ clientState[1] = "ERROR"

\* C16: the admin never registers presence: the bus's presence set, the
\* admin's registry, the winner of every update on its way and the row's
\* winner hold client identifiers only.
C16_OnlyClientsArePresent ==
    /\ presence \subseteq Clients
    /\ DOMAIN connectedUsers \subseteq Clients
    /\ Range(userList) \subseteq Clients
    /\ \A i \in 1 .. Len(requests) :
         requests[i].patch.winner \in Clients \cup {NULL}
    /\ record.winner \in Clients \cup {NULL}

\* C16 witness: the admin is subscribed, every client is present and in the
\* registry, and a winner has been written.
C16_Witness_SubscribedAdminAbsent ==
    /\ adminPc = "subscribed"
    /\ presence = Clients
    /\ Range(userList) = Clients
    /\ record.winner \in Clients

\* C17: the row changes only when the store commits an update of one of the
\* admin's three commands; updates are sent only by the three handlers; and
\* neither an update nor the row ever carries state ERROR.
C17_OnlyAdminCommandsWrite ==
    [][/\ (record' # record) =>
            \E i \in 1 .. Len(requests) :
                /\ Commits(i)
                /\ requests[i].cmd \in {"start_draw", "pick_winner", "reset"}
                /\ record' = ApplyPatch(record, requests[i].patch)
       /\ (Len(requests') > Len(requests)) =>
            /\ handleStartDraw \/ handlePickWinner \/ handleResetRaffle
            /\ requests'[Len(requests')].cmd \in
                   {"start_draw", "pick_winner", "reset"}
       /\ \A i \in 1 .. Len(requests') : requests'[i].patch.state # "ERROR"
       /\ record'.state # "ERROR"]_vars

\* C17 witness: a client shows ERROR, another has been torn down and its
\* channel released, the admin shows a channel error, and the row is the one
\* start_draw wrote.
C17_Witness_FailuresLeaveRow ==
    /\ record = PublicData("DRAWING", NULL)
    /\ error = "channel"
    /\ \E c \in Clients : clientState[c] = "ERROR"
    /\ \E c \in Clients :
         /\ clientPc[c] = "closed"
         /\ cleanup[c][2].status = "ok"

\* C18: a client's flag isCurrentUserWinner is true exactly when its local
\* state is DRAWN and its local winner is its own id; among the clients
\* that hold the row as the store holds it, at most one has the flag true.
C18_WinnerFlag ==
    /\ \A c \in Clients :
         isCurrentUserWinner(c) <=>
             (clientState[c] = "DRAWN" /\ clientWinner[c] = c)
    /\ Cardinality({c \in Clients :
                      /\ PublicData(clientState[c], clientWinner[c]) = record
                      /\ isCurrentUserWinner(c)}) <= 1

\* C18 witness: both clients hold the row {DRAWN, 2}; the flag is true for
\* client 2 (second version) and false for client 1.
C18_Witness_OneOfTwoWins ==
    /\ record = PublicData("DRAWN", 2)
    /\ \A c \in Clients : PublicData(clientState[c], clientWinner[c]) = record
    /\ isCurrentUserWinner(2)
    /\ ~isCurrentUserWinner(1)

\* C19 (as claimed): once a client has detached, at whatever point of its
\* setup, it never registers presence, none of its channels is subscribed,
\* and no fetch result or event changes its local values.
C19_DetachedClientStaysOut ==
    [][\A c \in Clients :
         (~mounted[c] /\ clientPc[c] # "init") =>
             /\ ~(c \notin presence /\ c \in presence')
             /\ clientPc'[c] \notin {"subscribed", "tracked"}
             /\ clientState'[c] = clientState[c]
             /\ clientWinner'[c] = clientWinner[c]]_vars

\* C20 (as claimed): the cleanup of a client that has a channel issues
\* untrack() and then removeChannel(), both in the same step; whatever the
\* outcome of one call, the other one still settles; and a call that fails
\* is logged, nothing else.
C20_UntrackThenReleaseFailuresLogged ==
    [][\A c \in Clients :
         /\ (mounted[c] /\ ~mounted'[c] /\ HasChannel(c)) =>
                /\ Len(cleanup'[c]) = 2
                /\ cleanup'[c][1] = Call("untrack")
                /\ cleanup'[c][2] = Call("removeChannel")
                /\ clientPc'[c] = "closed"
         /\ (cleanup[c] # <<>>) =>
                /\ Len(cleanup[c]) = 2
                /\ cleanup[c][1].call = "untrack"
                /\ cleanup[c][2].call = "removeChannel"
                /\ ~mounted[c] /\ clientPc[c] = "closed"
                /\ cleanup[c][1].status = "pending" =>
                       ENABLED ClientUntrackDone(c)
                /\ cleanup[c][2].status = "pending" =>
                       ENABLED ClientRemoveChannelDone(c)
                /\ \A k \in 1 .. 2 :
                       cleanup'[c][k].status \in {"pending", "ok", "logged"}]_vars

\* C21: the admin's registry changes only in a step of the sync handler, and
\* then it is exactly the bus's presence set of that moment; a step in which
\* a client joins or leaves the presence set leaves the registry alone; a
\* sync of an empty presence set gives an empty registry and sets no message.
C21_RegistryRebuiltOnSync ==
    [][/\ (connectedUsers' # connectedUsers) =>
            /\ adminPc = "subscribed"
            /\ connectedUsers' = PresenceStateOf(presence)
            /\ Range(userList') = presence
            /\ Len(userList') = Cardinality(presence)
            /\ presence' = presence
            /\ error' = error
       /\ (presence' # presence) => connectedUsers' = connectedUsers]_vars

\* C21 witness: the registry is empty again after it held both clients (a
\* pick on its way still carries the two candidates), both having left.
C21_Witness_EmptiedBySync ==
    /\ presence = {}
    /\ DOMAIN connectedUsers = {}
    /\ \A c \in Clients : clientPc[c] = "closed"
    /\ \E i \in 1 .. Len(requests) : Len(requests[i].candidates) = 2

\* C22: the step in which an update of the admin returns, accepted or failed,
\* leaves the admin's local raffle data as it was; the local raffle data
\* changes only when the initial fetch returns (row or failure) or when a
\* change-event of the row is delivered, and then it is that event's row.
C22_ReturnLeavesLocalData ==
    [][/\ (Len(requests') < Len(requests)) => raffleData' = raffleData
       /\ (raffleData' # raffleData) =>
            \/ /\ adminPc = "fetching"
               /\ raffleData' \in {record, ErrorPlaceholder}
            \/ /\ adminPc = "subscribed"
               /\ adminEvents # <<>>
               /\ raffleData' = Head(adminEvents)
               /\ adminEvents' = Tail(adminEvents)]_vars

\* C22 witness: an accepted update has returned, its change-event is not
\* delivered yet, and the local raffle data is still the row of before.
C22_Witness_ReturnedBeforeEvent ==
    /\ requests = <<>>
    /\ ~isLoading
    /\ adminPc = "subscribed"
    /\ Len(adminEvents) = 1
    /\ Head(adminEvents) = record
    /\ raffleData # NoData
    /\ raffleData # record

\* C23: when the store fails an update the row is unchanged; when that
\* await returns, the row and the admin's local raffle data are unchanged,
\* the message is set, the loading flag is cleared, and the update leaves
\* the list of updates on their way without a new one being sent.
C23_FailedWriteReported ==
    [][\A i \in 1 .. Len(requests) :
         /\ (/\ requests[i].status = "sent"
             /\ Len(requests') = Len(requests)
             /\ requests'[i].status = "error") =>
                /\ record' = record
                /\ raffleData' = raffleData
         /\ (/\ requests[i].status = "error"
             /\ requests' = RemoveAt(requests, i)) =>
                /\ record' = record
                /\ raffleData' = raffleData
                /\ error' = requests[i].cmd
                /\ error' # NoError
                /\ isLoading' = FALSE
                /\ \A j \in 1 .. Len(requests') : requests'[j] \in Range(requests)]_vars

\* C23 witness: a failed pick has returned: the message is shown, nothing is
\* on its way, the flag is down and the row is still DRAWING.
C23_Witness_FailedPickReturned ==
    /\ error = "pick_winner"
    /\ requests = <<>>
    /\ ~isLoading
    /\ record = PublicData("DRAWING", NULL)
    /\ raffleData = record

\* C24: when the cold-start fetch of a mounted client returns something other
\* than the row (an error, or no row), the client's local state becomes
\* ERROR, never another value and never undefined, and the step writes
\* nothing to the store.
C24_FailedFetchShowsError ==
    [][\A c \in Clients :
         (/\ clientPc[c] = "fetching"
          /\ clientPc'[c] # "fetching"
          /\ mounted[c]
          /\ \/ clientState'[c] # record.state
             \/ clientWinner'[c] # record.winner) =>
            /\ clientState'[c] = "ERROR"
            /\ clientState'[c] \in State
            /\ record' = record
            /\ requests' = requests
            /\ presence' = presence]_vars

\* C26: once the row holds DRAWN with winner w, a step changes the row's
\* winner only by committing a reset; in particular no commit of a second
\* pick_winner replaces w by another identifier.
C26_WinnerStableUntilReset ==
    [][(/\ record.state = "DRAWN"
        /\ record.winner # NULL
        /\ record'.winner # record.winner) =>
           \E i \in 1 .. Len(requests) :
               Commits(i) /\ requests[i].cmd = "reset"]_vars

\* C27: a session applies records in commit order.  Each commit puts the new
\* row at the tail of a subscriber's undelivered change-events, so the newest
\* one is always the row itself; a session applies the oldest undelivered
\* event and removes it; and the cold-start fetch comes first: while a
\* session has not finished its fetch it has no event, and once it has left
\* the fetch it never fetches again.
C27_AppliedInCommitOrder ==
    [][/\ adminPc = "fetching" => adminEvents = <<>>
       /\ adminPc # "fetching" => adminPc' # "fetching"
       /\ adminEvents' # <<>> =>
            adminEvents'[Len(adminEvents')] = record'
       /\ \/ adminEvents' = adminEvents
          \/ /\ \E i \in 1 .. Len(requests) : Commits(i)
             /\ adminEvents' = Append(adminEvents, record')
          \/ /\ adminEvents # <<>>
             /\ adminEvents' = Tail(adminEvents)
             /\ raffleData' = Head(adminEvents)
       /\ (raffleData' # raffleData /\ adminPc # "fetching") =>
            /\ adminEvents # <<>>
            /\ raffleData' = Head(adminEvents)
            /\ adminEvents' = Tail(adminEvents)
       /\ \A c \in Clients :
            /\ clientPc[c] \in {"init", "fetching"} => clientEvents[c] = <<>>
            /\ clientPc[c] \notin {"init", "fetching"} =>
                 clientPc'[c] \notin {"init", "fetching"}
            /\ clientEvents'[c] # <<>> =>
                 clientEvents'[c][Len(clientEvents'[c])] = record'
            /\ \/ clientEvents'[c] = clientEvents[c]
               \/ /\ \E i \in 1 .. Len(requests) : Commits(i)
                  /\ clientEvents'[c] = Append(clientEvents[c], record')
               \/ ~mounted'[c] /\ clientEvents'[c] = <<>>
               \/ /\ clientEvents[c] # <<>>
                  /\ clientEvents'[c] = Tail(clientEvents[c])
                  /\ clientState'[c] = Head(clientEvents[c]).state
                  /\ clientWinner'[c] = Head(clientEvents[c]).winner]_vars

\* C27 witness: a client that fetched WAITING has the events of two later
\* commits waiting in commit order, DRAWING then DRAWN.
C27_Witness_TwoEventsInOrder ==
    \E c \in Clients :
        /\ mounted[c]
        /\ Joined(c)
        /\ clientState[c] = "WAITING"
        /\ Len(clientEvents[c]) = 2
        /\ clientEvents[c][1] = PublicData("DRAWING", NULL)
        /\ clientEvents[c][2].state = "DRAWN"
        /\ clientEvents[c][2] = record

\* C25: with two admin sessions and a working store, no update is refused
\* and no session is shown a message, whatever the row holds when a
\* pick_winner update arrives; the commit of a pick_winner update makes the
\* row DRAWN with that update's winner, so after two racing picks the row's
\* winner is the one of the pick committed last.
C25_BothPicksAccepted ==
    [][/\ error = NoError
       /\ second.error = NoError
       /\ \A i \in 1 .. Len(requests) :
            /\ requests[i].status # "error"
            /\ (Commits(i) /\ requests[i].cmd = "pick_winner") =>
                  record' = PublicData("DRAWN", requests[i].patch.winner)]_vars

\* C25 witness: both sessions still show DRAWING, each has a pick_winner
\* update accepted and not yet returned, the two winners differ, and the row
\* holds the winner of the second session's pick, committed last.
C25_Witness_RacingPicksBothAccepted ==
    /\ raffleData.state = "DRAWING"
    /\ second.raffleData.state = "DRAWING"
    /\ \E i, j \in 1 .. Len(requests) :
         /\ requests[i].session = 1
         /\ requests[j].session = 2
         /\ requests[i].cmd = "pick_winner"
         /\ requests[j].cmd = "pick_winner"
         /\ requests[i].status = "ok"
         /\ requests[j].status = "ok"
         /\ requests[i].patch.winner # requests[j].patch.winner
         /\ record = PublicData("DRAWN", requests[j].patch.winner)

====
